---- MODULE Spec2Model ----
(***************************************************************************)
(* Model of compute_set_of_hand_eye_calibrations.py: the experiment driver *)
(* (argument checks, the algorithm/iteration/pose-pair loops, the optional *)
(* external optimizer, the results table) and compute_loop_error.          *)
(*                                                                         *)
(* Python lists are 0-based; a list is modelled by a sequence and element  *)
(* idx of the list is element idx + 1 of the sequence (GetItem).           *)
(***************************************************************************)
EXTENDS Integers, Sequences, FiniteSets, TLC

\* ------------------------------------------------------------------ bounds
MaxN == 4            \* largest number of pose files tried
MaxConfigs == 2      \* largest number of algorithm configurations in a run
MaxIter == 2         \* largest --num_iterations tried
MaxRuns == 2         \* runs of the script against one result directory

\* ------------------------------------------------- dual-quaternion algebra
\* Rigid transforms form a non-commutative group under composition.  The
\* model uses the smallest non-commutative group, the permutations of 1..3.
DQElems == {p \in [1..3 -> 1..3] : \A a, b \in 1..3 : p[a] = p[b] => a = b}

\* DualQuaternion(Quaternion(0, 0, 0, 1), Quaternion(0, 0, 0, 0))
DQIdentity == <<1, 2, 3>>

\* DualQuaternion.__mul__: composition of two transforms.
DQMul(a, b) == <<a[b[1]], a[b[2]], a[b[3]]>>

\* DualQuaternion.inverse()
InverseAt(a, k) == CHOOSE m \in 1..3 : a[m] = k
DQInverse(a) == <<InverseAt(a, 1), InverseAt(a, 2), InverseAt(a, 3)>>

\* Python's None where a DualQuaternion is expected: no group element.
None == <<0, 0, 0>>

\* A loop error that was never computed.
Unset == "unset"

\* An uncaught exception: its type and the source line that raised it.
Raised(error, line) == [error |-> error, line |-> line]
NoFault == Raised("none", 0)

\* Two transforms that generate the whole group, for longer result lists.
DQGenerators == {<<2, 1, 3>>, <<2, 3, 1>>}

\* The estimate a solver or optimizer call returns when it succeeds.  The
\* driver never looks inside an estimate, only at whether it is None.
DQEstimates == {<<2, 3, 1>>}

\* ------------------------------------------------- itertools.combinations
RECURSIVE CombFrom(_, _, _)
CombFrom(a, b, n) ==
  IF a >= n - 1 THEN <<>>
  ELSE IF b >= n THEN CombFrom(a + 1, a + 2, n)
  ELSE <<<<a, b>>>> \o CombFrom(a, b + 1, n)

\* list(itertools.combinations(range(n), 2)): pairs of file indices in
\* lexicographic order.
Combinations(n) == CombFrom(0, 1, n)

\* ------------------------------------------------------ compute_loop_error
InRange(list, idx) == idx >= 0 /\ idx < Len(list)
GetItem(list, idx) == list[idx + 1]

StrideOffByOne(n, i) == n - i
\* idx += (num_poses_sets - i - 1)
Stride(n, i) == n - i - 1

LoopBoundOffByOne(n) == n - 1
\* while i < (num_poses_sets - 2)
LoopBound(n) == n - 2

ClosingIndexLast(n) == n - 1
\* results_dq_H_E[num_poses_sets - 2]
ClosingIndex(n) == n - 2

ClosingTransformNotInverted(dq) == dq
\* results_dq_H_E[num_poses_sets - 2].inverse()
ClosingTransform(dq) == DQInverse(dq)

\* The trace of one call: the chain built, the list indices read, the poses
\* composed, the error returned and the exception that ended the call, if
\* any.  EmptyCall: the function was not called.
EmptyCall ==
  [fault |-> NoFault, chain |-> <<>>, reads |-> <<>>, poses |-> <<>>,
   error |-> Unset]

\* calibration_transformation_chain.append(results_dq_H_E[idx])
ReadInto(call, results, idx, line) ==
  IF InRange(results, idx)
  THEN [call EXCEPT !.chain = Append(@, GetItem(results, idx)),
                    !.reads = Append(@, idx)]
  ELSE [call EXCEPT !.fault = Raised("IndexError", line),
                    !.reads = Append(@, idx)]

\* Lines 54-59, the walk over the flattened list of pair results.
RECURSIVE ChainLoop(_, _, _, _, _)
ChainLoop(results, n, i, idx, call) ==
  IF call.fault # NoFault \/ ~(i < LoopBound(n)) THEN call
  ELSE LET next == idx + Stride(n, i)
       IN  ChainLoop(results, n, i + 1, next,
                     ReadInto(call, results, next, 58))

\* Lines 43-63: origin, first transformation, the strided walk, the inverse
\* of the first-to-last calibration (None has no inverse()).
BuildChain(results, n) ==
  LET origin == [EmptyCall EXCEPT !.chain = <<DQIdentity>>]
      first  == ReadInto(origin, results, 0, 51)
      walked == ChainLoop(results, n, 0, 0, first)
      last   == ClosingIndex(n)
      read   == [walked EXCEPT !.reads = Append(@, last)]
  IN  IF walked.fault # NoFault THEN walked
      ELSE IF ~InRange(results, last)
        THEN [read EXCEPT !.fault = Raised("IndexError", 63)]
      ELSE IF GetItem(results, last) = None
        THEN [read EXCEPT !.fault = Raised("AttributeError", 63)]
      ELSE [read EXCEPT
              !.chain = Append(@, ClosingTransform(GetItem(results, last)))]

\* Lines 70-74: dq_tmp *= chain[i], one pose per chain element.  A None in
\* the chain cannot be multiplied.
RECURSIVE ComposeFrom(_, _, _, _)
ComposeFrom(chain, k, dq_tmp, call) ==
  IF k > Len(chain) THEN call
  ELSE IF chain[k] = None THEN [call EXCEPT !.fault = Raised("TypeError", 73)]
  ELSE LET dq == DQMul(dq_tmp, chain[k])
       IN  ComposeFrom(chain, k + 1, dq, [call EXCEPT !.poses = Append(@, dq)])

\* compute_pose_error(poses_to_plot[0], poses_to_plot[-1]): zero exactly when
\* the two poses coincide.
PoseError(first, last) == IF first = last THEN "zero" ELSE "nonzero"

\* compute_loop_error(results_dq_H_E, visualize) with num_poses_sets = n.
ComputeLoopError(results, n) ==
  LET built == BuildChain(results, n)
  IN  IF built.fault # NoFault THEN built
      ELSE IF Len(built.chain) # n + 1
        THEN [built EXCEPT !.fault = Raised("AssertionError", 66)]
      ELSE LET composed == ComposeFrom(built.chain, 1, DQIdentity, built)
           IN  IF composed.fault # NoFault THEN composed
               ELSE [composed EXCEPT
                       !.error = PoseError(composed.poses[1],
                                           composed.poses[Len(composed.poses)])]

\* ------------------------------------------------------------------- state
VARIABLES
  pc,                   \* where the script is; "idle": no run in progress
  runs,                 \* runs started against the result directory
  num_poses_sets,       \* len(args.aligned_poses_B_H_csv_files)
  num_flags,            \* len(is_absolute_pose_sensor_flags)
  set_of_pose_pairs,    \* pairs of file indices, in combination order
  num_pose_pairs,
  args_num_iterations,  \* --num_iterations
  configs_seen,         \* configurations taken from get_all_configs() so far
  config,               \* the configuration of the current pass
  num_iterations,
  iteration,
  pose_pair_num,
  result_entry,         \* the ResultEntry of the current iteration
  results_dq_H_E,
  solver_out,           \* module-level names bound by the solver branch
  optimizer_raised,     \* per pair of the iteration: did run(...) raise
  call,                 \* compute_loop_error's call in this iteration
  skip_reported,        \* line 362 printed in this iteration
  results_csv,          \* <result_directory>/results.csv on disk
  output_file,          \* the file object bound to output_file
  fault,                \* the uncaught exception that ended the run
  completed_iterations, \* iterations of this run whose pair loop completed
  rows_written,         \* result rows this run handed to output_file.write
  frames                \* ground-truth sensor frames behind the results

vars ==
  <<pc, runs, num_poses_sets, num_flags, set_of_pose_pairs, num_pose_pairs,
    args_num_iterations, configs_seen, config, num_iterations, iteration,
    pose_pair_num, result_entry, results_dq_H_E, solver_out,
    optimizer_raised, call, skip_reported, results_csv, output_file, fault,
    completed_iterations, rows_written, frames>>

argVars ==
  <<num_poses_sets, num_flags, set_of_pose_pairs, num_pose_pairs,
    args_num_iterations>>
configVars == <<configs_seen, config, num_iterations>>
fileVars == <<results_csv, output_file>>

\* An algorithm configuration, as far as the driver reads it:
\* hand_eye_config.enable_exhaustive_search or .use_baseline_approach,
\* optimization_config.enable_optimization and .optimization_only.
Configs ==
  [single_iteration : BOOLEAN, enable_optimization : BOOLEAN,
   optimization_only : BOOLEAN]
NoConfig ==
  [single_iteration |-> FALSE, enable_optimization |-> FALSE,
   optimization_only |-> FALSE]

\* The names success, dq_H_E, num_poses_kept, runtime, singular_values,
\* bad_singular_values, dual_quat_B_H_vec, rmse and num_inliers are bound
\* together by the solver branch.  from: the (configuration, iteration,
\* pair) whose processing bound them.
UnboundNames ==
  [bound |-> FALSE, from |-> <<0, 0, 0>>, success |-> FALSE, dq_H_E |-> None]

\* ResultEntry(): the per-pair lists, and which iteration the entry is for.
NewResultEntry(cfg, it) ==
  [for |-> <<cfg, it>>, success |-> <<>>, values_from |-> <<>>,
   estimate_from |-> <<>>, optimization_success |-> <<>>,
   loop_error |-> Unset]

HeaderLine == [kind |-> "header", pair |-> 0]
RowLine(i) == [kind |-> "row", pair |-> i]
NoFile == [exists |-> FALSE, lines |-> <<>>]
NotOpen == [open |-> FALSE, buffer |-> <<>>]

\* Closing a file object writes its buffer to the file.
Flushed(csv, file) ==
  IF file.open THEN [exists |-> TRUE, lines |-> csv.lines \o file.buffer]
  ELSE csv

\* The state of a process before it binds anything.
Fresh ==
  /\ configs_seen = 0
  /\ config = NoConfig
  /\ num_iterations = 0
  /\ iteration = 0
  /\ pose_pair_num = 0
  /\ result_entry = NewResultEntry(0, 0)
  /\ solver_out = UnboundNames
  /\ optimizer_raised = <<>>
  /\ call = EmptyCall
  /\ skip_reported = FALSE
  /\ output_file = NotOpen
  /\ fault = NoFault
  /\ completed_iterations = 0
  /\ rows_written = 0
  /\ num_flags = 0
  /\ args_num_iterations = 0

\* An empty result directory and no run yet.
Init ==
  /\ Fresh
  /\ pc = "idle"
  /\ runs = 0
  /\ num_poses_sets = 0
  /\ set_of_pose_pairs = <<>>
  /\ num_pose_pairs = 0
  /\ results_dq_H_E = <<>>
  /\ results_csv = NoFile
  /\ frames = <<>>

\* ------------------------------------------------------------------ driver
\* An uncaught exception ends the process; the interpreter closes the open
\* file object on its way out.
Abort(f) ==
  /\ pc' = "idle"
  /\ fault' = f
  /\ results_csv' = Flushed(results_csv, output_file)
  /\ output_file' = NotOpen

\* A process that has bound none of the names of the loops.
NothingBound ==
  /\ configs_seen' = 0
  /\ config' = NoConfig
  /\ num_iterations' = 0
  /\ iteration' = 0
  /\ pose_pair_num' = 0
  /\ result_entry' = NewResultEntry(0, 0)
  /\ results_dq_H_E' = <<>>
  /\ solver_out' = UnboundNames
  /\ optimizer_raised' = <<>>
  /\ call' = EmptyCall
  /\ skip_reported' = FALSE
  /\ completed_iterations' = 0
  /\ rows_written' = 0

\* Lines 113-132: the first assertion that fails, if any.
StartupFault(n, nflags, pairs) ==
  IF n < 2 THEN Raised("AssertionError", 117)
  ELSE IF nflags # n THEN Raised("AssertionError", 126)
  ELSE IF Len(pairs) # nflags THEN Raised("AssertionError", 132)
  ELSE NoFault

HeaderNeededNever(csv) == FALSE
\* if not os.path.exists(result_file_path)
HeaderNeeded(csv) == ~csv.exists

\* Lines 93-154.  given = 0: --is_absolute_pose_sensor was not passed.
StartRun ==
  /\ pc = "idle"
  /\ runs < MaxRuns
  /\ \E n \in 1..MaxN, given \in 0..MaxN, iters \in 1..MaxIter :
       LET nflags == IF given = 0 THEN n ELSE given
           pairs  == Combinations(n)
           f      == StartupFault(n, nflags, pairs)
       IN  /\ num_poses_sets' = n
           /\ num_flags' = IF f.line = 117 THEN 0 ELSE nflags
           /\ set_of_pose_pairs' = IF f.line \in {117, 126} THEN <<>> ELSE pairs
           /\ num_pose_pairs' = IF f.line \in {117, 126} THEN 0 ELSE Len(pairs)
           /\ args_num_iterations' = iters
           /\ fault' = f
           /\ IF f # NoFault
              THEN pc' = "idle" /\ output_file' = NotOpen
                   /\ UNCHANGED results_csv
              ELSE /\ pc' = "configs"
                   /\ IF HeaderNeeded(results_csv)
                      THEN \* open(result_file_path, 'w'); write(header)
                           /\ results_csv' = [exists |-> TRUE, lines |-> <<>>]
                           /\ output_file' =
                                [open |-> TRUE, buffer |-> <<HeaderLine>>]
                      ELSE /\ output_file' = NotOpen
                           /\ UNCHANGED results_csv
  /\ runs' = runs + 1
  /\ NothingBound
  /\ UNCHANGED frames

\* Line 156 with lines 162-165: the for loop takes the next configuration
\* of get_all_configs().
NextConfig ==
  /\ pc = "configs"
  /\ configs_seen < MaxConfigs
  /\ \E c \in Configs :
       /\ config' = c
       /\ num_iterations' =
            IF c.single_iteration THEN 1 ELSE args_num_iterations
  /\ configs_seen' = configs_seen + 1
  /\ iteration' = 0
  /\ pc' = "iterations"
  /\ UNCHANGED <<runs, argVars, pose_pair_num, result_entry, results_dq_H_E,
                 solver_out, optimizer_raised, call, skip_reported, fileVars,
                 fault, completed_iterations, rows_written, frames>>

\* Line 156, list exhausted: the script ends, its open file is closed and
\* what the process held in memory is gone.
Exit ==
  /\ pc = "configs"
  /\ pc' = "idle"
  /\ results_csv' = Flushed(results_csv, output_file)
  /\ output_file' = NotOpen
  /\ fault' = NoFault
  /\ NothingBound
  /\ num_poses_sets' = 0
  /\ num_flags' = 0
  /\ set_of_pose_pairs' = <<>>
  /\ num_pose_pairs' = 0
  /\ args_num_iterations' = 0
  /\ UNCHANGED <<runs, frames>>

\* Lines 167-176.
BeginIteration ==
  /\ pc = "iterations"
  /\ iteration < num_iterations
  /\ result_entry' = NewResultEntry(configs_seen, iteration)
  /\ results_dq_H_E' = <<>>
  /\ pose_pair_num' = 0
  /\ optimizer_raised' = <<>>
  /\ call' = EmptyCall
  /\ skip_reported' = FALSE
  /\ pc' = "pairs"
  /\ UNCHANGED <<runs, argVars, configVars, iteration, solver_out, fileVars,
                 fault, completed_iterations, rows_written, frames>>

\* Line 167, range exhausted.
IterationsDone ==
  /\ pc = "iterations"
  /\ iteration >= num_iterations
  /\ pc' = "configs"
  /\ UNCHANGED <<runs, argVars, configVars, iteration, pose_pair_num,
                 result_entry, results_dq_H_E, solver_out, optimizer_raised,
                 call, skip_reported, fileVars, fault, completed_iterations,
                 rows_written, frames>>

\* What compute_hand_eye_calibration_RANSAC / _BASELINE return: an estimate,
\* or failure with a None estimate.
SolverOutcomes ==
  {[success |-> TRUE, dq_H_E |-> d] : d \in DQEstimates}
    \cup {[success |-> FALSE, dq_H_E |-> None]}

\* Lines 202-267: the solver branch binds the names; the optimization-only
\* branch binds only the initial guess.
NamesAfterBranch(names, cfg, out, cfgnum, it, pair) ==
  IF cfg.optimization_only THEN names
  ELSE [bound |-> TRUE, from |-> <<cfgnum, it, pair>>,
        success |-> out.success, dq_H_E |-> out.dq_H_E]

\* Lines 178-276: one pose pair up to the filled-in result entry.  Reading
\* the pose files, the time alignment and writing the initial guess are
\* taken to return; of the solver only its outcome matters here.
CalibratePair ==
  /\ pc = "pairs"
  /\ pose_pair_num < num_pose_pairs
  /\ \E out \in SolverOutcomes :
       LET names == NamesAfterBranch(solver_out, config, out, configs_seen,
                                     iteration, pose_pair_num)
       IN  /\ solver_out' = names
           /\ IF ~names.bound
              THEN /\ Abort(Raised("NameError", 271))
                   /\ UNCHANGED result_entry
              ELSE /\ result_entry' =
                        [result_entry EXCEPT
                           !.success = Append(@, names.success),
                           !.values_from = Append(@, names.from)]
                   /\ pc' = "optimize"
                   /\ UNCHANGED <<fault, fileVars>>
  /\ UNCHANGED <<runs, argVars, configVars, iteration, pose_pair_num,
                 results_dq_H_E, optimizer_raised, call, skip_reported,
                 completed_iterations, rows_written, frames>>

CaughtNowhere == FALSE
\* try: run(...) except Exception as ex: optimization_success = False
CaughtAtCallSite == TRUE

\* Lines 279-335 and 349: the external optimizer refines the pair.
OptimizePair ==
  /\ pc = "optimize"
  /\ config.enable_optimization
  /\ \E raised \in BOOLEAN, dq \in DQEstimates :
       /\ optimizer_raised' = Append(optimizer_raised, raised)
       /\ IF raised /\ ~CaughtAtCallSite
          THEN /\ Abort(Raised("Exception", 296))
               /\ UNCHANGED <<results_dq_H_E, result_entry, pose_pair_num>>
          ELSE LET optimization_success == ~raised
                   dq_H_E_optimized ==
                     IF optimization_success THEN dq ELSE None
               IN  /\ results_dq_H_E' =
                        Append(results_dq_H_E, dq_H_E_optimized)
                   /\ result_entry' =
                        [result_entry EXCEPT
                           !.optimization_success =
                              Append(@, optimization_success),
                           !.estimate_from =
                              Append(@, <<configs_seen, iteration,
                                          pose_pair_num>>)]
                   /\ pose_pair_num' = pose_pair_num + 1
                   /\ pc' = "pairs"
                   /\ UNCHANGED <<fault, fileVars>>
  /\ UNCHANGED <<runs, argVars, configVars, iteration, solver_out, call,
                 skip_reported, completed_iterations, rows_written, frames>>

\* Lines 337-349: the initial algorithm's result is the pair's result.
UseInitialResult ==
  /\ pc = "optimize"
  /\ ~config.enable_optimization
  /\ results_dq_H_E' = Append(results_dq_H_E, solver_out.dq_H_E)
  /\ result_entry' =
       [result_entry EXCEPT
          !.optimization_success = Append(@, TRUE),
          !.estimate_from = Append(@, solver_out.from)]
  /\ optimizer_raised' = Append(optimizer_raised, FALSE)
  /\ pose_pair_num' = pose_pair_num + 1
  /\ pc' = "pairs"
  /\ UNCHANGED <<runs, argVars, configVars, iteration, solver_out, call,
                 skip_reported, fileVars, fault, completed_iterations,
                 rows_written, frames>>

\* sum(result_entry.optimization_success) == num_pose_pairs
AllPairsCalibrated(entry, n) ==
  Cardinality({k \in 1..Len(entry.optimization_success) :
                 entry.optimization_success[k]}) = n

\* Lines 351-362, once zip(...) is exhausted.  Plotting (visualize = True)
\* changes nothing the script reads.
VerifyResults ==
  /\ pc = "pairs"
  /\ pose_pair_num >= num_pose_pairs
  /\ completed_iterations' = completed_iterations + 1
  /\ IF Len(results_dq_H_E) # num_pose_pairs
     THEN /\ Abort(Raised("AssertionError", 352))
          /\ UNCHANGED <<call, skip_reported, result_entry>>
     ELSE IF AllPairsCalibrated(result_entry, num_pose_pairs)
     THEN LET returned == ComputeLoopError(results_dq_H_E, num_poses_sets)
          IN  /\ call' = returned
              /\ UNCHANGED skip_reported
              /\ IF returned.fault # NoFault
                 THEN Abort(returned.fault) /\ UNCHANGED result_entry
                 ELSE /\ result_entry' =
                           [result_entry EXCEPT !.loop_error = returned.error]
                      /\ pc' = "write"
                      /\ UNCHANGED <<fault, fileVars>>
     ELSE /\ skip_reported' = TRUE
          /\ pc' = "write"
          /\ UNCHANGED <<call, result_entry, fault, fileVars>>
  /\ UNCHANGED <<runs, argVars, configVars, iteration, pose_pair_num,
                 results_dq_H_E, solver_out, optimizer_raised, rows_written,
                 frames>>

\* for i in range(0, num_pose_pairs): output_file.write(...)
RowsOf(n) == [i \in 1..n |-> RowLine(i - 1)]

\* Lines 364-392: open(result_file_path, 'a') creates the file if needed;
\* rebinding output_file closes the object it was bound to.
WriteResults ==
  /\ pc = "write"
  /\ results_csv' =
       [exists |-> TRUE, lines |-> Flushed(results_csv, output_file).lines]
  /\ output_file' = [open |-> TRUE, buffer |-> RowsOf(num_pose_pairs)]
  /\ rows_written' = rows_written + num_pose_pairs
  /\ iteration' = iteration + 1
  /\ pc' = "iterations"
  /\ UNCHANGED <<runs, argVars, configVars, pose_pair_num, result_entry,
                 results_dq_H_E, solver_out, optimizer_raised, call,
                 skip_reported, fault, completed_iterations, frames>>

Next ==
  \/ StartRun
  \/ NextConfig
  \/ Exit
  \/ BeginIteration
  \/ IterationsDone
  \/ CalibratePair
  \/ OptimizePair
  \/ UseInitialResult
  \/ VerifyResults
  \/ WriteResults

Spec == Init /\ [][Next]_vars

\* --------------------------------------- compute_loop_error on its own
\* The pair results of n sensors whose frames are F[1..n]: the result for
\* the pair (i, j) is the transform from frame i to frame j.
ConsistentResults(n, F) ==
  LET pairs == Combinations(n)
  IN  [k \in 1..Len(pairs) |->
         DQMul(DQInverse(F[pairs[k][1] + 1]), F[pairs[k][2] + 1])]

\* Any list of pair results: every transform for a single pair, the two
\* generators for longer lists.
ArbitraryResults(n) ==
  [1..Len(Combinations(n)) -> IF n = 2 THEN DQElems ELSE DQGenerators]

LoopInit ==
  /\ Fresh
  /\ pc = "loop_call"
  /\ runs = 0
  /\ results_csv = NoFile
  /\ \E n \in 2..MaxN :
       /\ num_poses_sets = n
       /\ set_of_pose_pairs = Combinations(n)
       /\ num_pose_pairs = Len(Combinations(n))
       /\ \/ \E F \in [1..n -> DQElems] :
               /\ frames = F
               /\ results_dq_H_E = ConsistentResults(n, F)
          \/ /\ frames = <<>>
             /\ results_dq_H_E \in ArbitraryResults(n)

\* compute_loop_error(results_dq_H_E)
CallLoopError ==
  /\ pc = "loop_call"
  /\ call' = ComputeLoopError(results_dq_H_E, num_poses_sets)
  /\ pc' = "loop_return"
  /\ UNCHANGED <<runs, argVars, configVars, iteration, pose_pair_num,
                 result_entry, results_dq_H_E, solver_out, optimizer_raised,
                 skip_reported, fileVars, fault, completed_iterations,
                 rows_written, frames>>

LoopNext == CallLoopError

LoopSpec == LoopInit /\ [][LoopNext]_vars

\* ------------------------------------------------------------- properties
IsPrefix(s, t) ==
  /\ Len(s) <= Len(t)
  /\ \A k \in 1..Len(s) : s[k] = t[k]

HasNone(results) == \E k \in 1..Len(results) : results[k] = None

\* C1: for every N >= 2 of pose files, with no is-absolute flags or exactly
\* N of them, every startup check passes and C(N,2) pose pairs are formed;
\* in particular N = 2 gives one pair and the run goes on to calibrate it.
C1_StartupPassesForEveryN ==
  (runs > 0 /\ num_poses_sets >= 2 /\ num_flags = num_poses_sets)
    => /\ fault.line \notin {117, 126, 132}
       /\ 2 * num_pose_pairs = num_poses_sets * (num_poses_sets - 1)

\* C2: for every N >= 2 and every list of C(N,2) results that are not None,
\* the chain compute_loop_error builds holds exactly N+1 transforms, no
\* assertion or exception ends the call, and every list index it reads lies
\* in 0..C(N,2)-1.
C2_ChainLengthAndIndices ==
  pc = "loop_return"
    => /\ call.fault = NoFault
       /\ Len(call.chain) = num_poses_sets + 1
       /\ \A k \in 1..Len(call.reads) :
            call.reads[k] \in 0..(Len(results_dq_H_E) - 1)
       /\ 2 * Len(results_dq_H_E) = num_poses_sets * (num_poses_sets - 1)

C2_Witness ==
  /\ pc = "loop_return"
  /\ num_poses_sets = MaxN
  /\ frames = <<>>
  /\ Len(call.chain) = MaxN + 1

\* C3: when the C(N,2) results come from one consistent set of sensor
\* frames, composing the chain left to right from the identity returns to
\* the starting pose: the loop-closure error is zero.
C3_ConsistentLoopCloses ==
  (pc = "loop_return" /\ frames # <<>>)
    => /\ call.fault = NoFault
       /\ Len(call.poses) = num_poses_sets + 1
       /\ call.poses[Len(call.poses)] = call.poses[1]
       /\ call.error = "zero"

C3_Witness ==
  /\ pc = "loop_return"
  /\ frames # <<>>
  /\ num_poses_sets >= 3
  /\ DQMul(results_dq_H_E[1], results_dq_H_E[2])
       # DQMul(results_dq_H_E[2], results_dq_H_E[1])
  /\ call.error = "zero"

\* C4: in an iteration in which some pose pair ended with a None estimate,
\* compute_loop_error is not invoked; the loop-closure computation is
\* skipped and the reason is printed, with optimization enabled or not.
C4_NoneEstimateSkipsLoopError ==
  HasNone(results_dq_H_E)
    => /\ call = EmptyCall
       /\ pc = "write" => skip_reported

\* C5 (state part): once the optimizer raised for a pair of the iteration,
\* no exception ends the run in that iteration, the pair is recorded with
\* optimization_success false and a None estimate, and the pair loop goes on
\* to process every pair.
C5_FailureRecorded ==
  \A k \in 1..Len(optimizer_raised) :
    optimizer_raised[k]
      => /\ fault = NoFault
         /\ Len(results_dq_H_E) >= k
         /\ results_dq_H_E[k] = None
         /\ ~result_entry.optimization_success[k]
         /\ pc \in {"pairs", "optimize"}
              \/ Len(results_dq_H_E) = num_pose_pairs

\* C5 (step part): within an iteration, what was recorded for earlier pairs
\* is never changed by the processing of a later pair.
C5_EarlierPairsKept ==
  (pc \in {"pairs", "optimize"} /\ pc' \in {"pairs", "optimize"})
    => /\ IsPrefix(results_dq_H_E, results_dq_H_E')
       /\ IsPrefix(result_entry.success, result_entry.success')
       /\ IsPrefix(result_entry.values_from, result_entry.values_from')
       /\ IsPrefix(result_entry.optimization_success,
                   result_entry.optimization_success')
       /\ IsPrefix(optimizer_raised, optimizer_raised')

\* C5: an exception of the external optimizer for pose pair k does not
\* abort the run: pair k is recorded with optimization_success = false and a
\* None estimate, the remaining pairs are still processed and the entries
\* of the pairs before k are left unchanged.
C5_OptimizerFailureContained ==
  []C5_FailureRecorded /\ [][C5_EarlierPairsKept]_vars

C5_Witness ==
  /\ pc = "write"
  /\ Len(optimizer_raised) = 3
  /\ ~optimizer_raised[1]
  /\ optimizer_raised[2]
  /\ ~optimizer_raised[3]
  /\ results_dq_H_E[1] # None
  /\ results_dq_H_E[3] # None

\* C6: every iteration whose pair loop completed has appended one row per
\* pose pair to the results table, also when a pair of it failed and the
\* loop-closure error was not computed.
C6_RowsForEveryCompletedIteration ==
  pc \in {"iterations", "configs", "idle"}
    => rows_written = completed_iterations * num_pose_pairs

\* C7 (state part): the table starts with the header, no other line of it
\* is a header, and between runs an existing table is never empty.
C7_HeaderFirstAndOnce ==
  results_csv.exists
    => /\ pc = "idle" => results_csv.lines # <<>>
       /\ results_csv.lines # <<>> => results_csv.lines[1] = HeaderLine
       /\ \A k \in 2..Len(results_csv.lines) :
            results_csv.lines[k].kind = "row"

\* C7 (step part): an existing table is only ever appended to.
C7_OnlyAppended ==
  results_csv.exists
    => /\ results_csv'.exists
       /\ IsPrefix(results_csv.lines, results_csv'.lines)

\* C7: over any sequence of runs against one result directory the results
\* table holds the header exactly once: the run that finds the file absent
\* writes it, it precedes every row, and later runs only append.
C7_HeaderWrittenOnce ==
  []C7_HeaderFirstAndOnce /\ [][C7_OnlyAppended]_vars

C7_Witness ==
  /\ runs = 2
  /\ rows_written = 6
  /\ Len(results_csv.lines) = 7
  /\ Len(output_file.buffer) = 3

\* C8: with the results in itertools.combinations order, the index rule of
\* compute_loop_error selects the results of the pairs (file_i, file_i+1),
\* i = 0..N-2, in that order, and then the inverse of the result of the
\* pair (file_0, file_N-1).
C8_IndexRuleSelectsConsecutivePairs ==
  pc = "loop_return"
    => LET n == num_poses_sets
       IN  /\ Len(call.reads) = n
           /\ Len(call.chain) = n + 1
           /\ \A k \in 1..n : InRange(set_of_pose_pairs, call.reads[k])
           /\ \A k \in 1..(n - 1) :
                /\ GetItem(set_of_pose_pairs, call.reads[k]) = <<k - 1, k>>
                /\ call.chain[k + 1] = GetItem(results_dq_H_E, call.reads[k])
           /\ GetItem(set_of_pose_pairs, call.reads[n]) = <<0, n - 1>>
           /\ call.chain[n + 1] =
                DQInverse(GetItem(results_dq_H_E, call.reads[n]))

C8_Witness ==
  /\ pc = "loop_return"
  /\ num_poses_sets = 4
  /\ call.reads = <<0, 3, 5, 2>>

\* C9: the values recorded for a pose pair (success flag, pose counts,
\* runtime, singular values, the estimate) are produced by that pair's own
\* processing in the current iteration, in every mode.
C9_ValuesComeFromOwnPair ==
  /\ \A k \in 1..Len(result_entry.values_from) :
       result_entry.values_from[k] = result_entry.for \o <<k - 1>>
  /\ \A k \in 1..Len(result_entry.estimate_from) :
       result_entry.estimate_from[k] = result_entry.for \o <<k - 1>>

\* C10: for N = 2 and any single result T the chain is
\* [identity, T, inverse(T)] and the last composed pose equals the first:
\* the loop-closure error is zero by construction.
C10_TwoFilesLoopIsTrivial ==
  (pc = "loop_return" /\ num_poses_sets = 2)
    => /\ call.chain = <<DQIdentity, results_dq_H_E[1],
                         DQInverse(results_dq_H_E[1])>>
       /\ call.fault = NoFault
       /\ Len(call.poses) = 3
       /\ call.poses[3] = call.poses[1]
       /\ call.error = "zero"

C10_Witness ==
  /\ pc = "loop_return"
  /\ num_poses_sets = 2
  /\ frames = <<>>
  /\ results_dq_H_E[1] = <<2, 3, 1>>
  /\ call.chain = <<DQIdentity, <<2, 3, 1>>, <<3, 1, 2>>>>
  /\ call.error = "zero"

====
